---- MODULE Spec2Model ----
(***************************************************************************)
(* Model of the flox backend (src/backend/main.go): the site provisioning  *)
(* workflow.  Each create request is one goroutine running                 *)
(* createSiteHandler; its steps interleave with the other requests at the  *)
(* system calls it makes on the shared sites directory (os.Stat, os.Mkdir, *)
(* os.Create) and at the outbound DNS call.                                *)
(*                                                                         *)
(* A site name is a sequence of one-character strings, an error returned   *)
(* by createSiteDir is a sequence of words, a response error is a string.  *)
(***************************************************************************)
EXTENDS Integers, Sequences, FiniteSets, TLC

\* Number of create requests the server receives in a run.
NReq == 2

Reqs == 1..NReq

(***************************************************************************)
(* Characters, strings.ToLower and the site name pattern                   *)
(***************************************************************************)
LowerSeq ==
    << "a", "b", "c", "d", "e", "f", "g", "h", "i", "j", "k", "l", "m",
       "n", "o", "p", "q", "r", "s", "t", "u", "v", "w", "x", "y", "z" >>
UpperSeq ==
    << "A", "B", "C", "D", "E", "F", "G", "H", "I", "J", "K", "L", "M",
       "N", "O", "P", "Q", "R", "S", "T", "U", "V", "W", "X", "Y", "Z" >>
LowerLetters == { LowerSeq[i] : i \in 1..Len(LowerSeq) }
UpperLetters == { UpperSeq[i] : i \in 1..Len(UpperSeq) }
Digits == {"0", "1", "2", "3", "4", "5", "6", "7", "8", "9"}
Hyphen == "-"

\* unicode.ToLower on one character.
ToLowerChar(c) ==
    IF c \in UpperLetters
    THEN LowerSeq[CHOOSE i \in 1..Len(UpperSeq) : UpperSeq[i] = c]
    ELSE c

\* strings.ToLower
ToLower(s) == [i \in 1..Len(s) |-> ToLowerChar(s[i])]

\* [a-zA-Z0-9]
IsAlnum(c) == c \in LowerLetters \cup UpperLetters \cup Digits

\* [a-zA-Z0-9\-]
IsAlnumOrHyphen(c) == IsAlnum(c) \/ c = Hyphen

\* Mutant of siteNameRegex: the middle part may have 62 characters, so a
\* 64-character name passes.
siteNameRegex_OneMore(s) ==
    /\ Len(s) >= 1
    /\ IsAlnum(s[1])
    /\ Len(s) >= 2 =>
          /\ Len(s) <= 64
          /\ IsAlnum(s[Len(s)])
          /\ \A i \in 2..(Len(s) - 1) : IsAlnumOrHyphen(s[i])

\* siteNameRegex.MatchString: ^[a-zA-Z0-9]([a-zA-Z0-9\-]{0,61}[a-zA-Z0-9])?$
siteNameRegex(s) ==
    /\ Len(s) >= 1
    /\ IsAlnum(s[1])
    /\ \/ Len(s) = 1
       \/ /\ Len(s) - 2 <= 61
          /\ \A i \in 2..(Len(s) - 1) : IsAlnumOrHyphen(s[i])
          /\ IsAlnum(s[Len(s)])

siteNameBlacklist ==
    { <<"w", "w", "w">>,
      <<"m", "a", "i", "l">>,
      <<"f", "t", "p">>,
      <<"a", "d", "m", "i", "n">>,
      <<"a", "p", "i">> }

\* The site names requests carry.
ReqNames ==
    { <<"a", "b">>,        \* well formed, lower case
      <<"A", "b">>,        \* well formed, mixed case
      <<"A", "P", "I">>,   \* reserved, upper case
      <<"-", "a">> }       \* leading hyphen

(***************************************************************************)
(* Error values.  nil is the empty string (or the empty word sequence).    *)
(***************************************************************************)
Nil == ""
ErrSyntax == "site name must be 1-63 characters, letters, digits, or hyphens; cannot start or end with hyphen"
ErrReserved == "site name is reserved or forbidden"
ErrExists == "site name already exists"
ErrCheckingExistence == "error checking site existence: stat failed"
ErrDNSConfigMissing == "DNS API config missing"
ErrDNSRequestFailed == "HTTP request failed"
ErrDNSUnexpectedStatus == "unexpected status code"

\* What a system call on the sites directory can do besides what the
\* directory's content decides: fail with an error of its own.
Faults == {"none", "fault"}

(***************************************************************************)
(* State                                                                   *)
(***************************************************************************)
VARIABLES
    alive,     \* the server process is running
    siteIP,    \* os.Getenv("SITE_IP"): "" when unset
    dnsConf,   \* DNS_API_RRSETS and DNS_API_AUTH are both set
    fs,        \* the sites directory: entry name -> its config.json
    pc,        \* per request: the step createSiteHandler is at
    req,       \* per request: the decoded siteCreationRequest
    resp,      \* per request: the response written
    ret,       \* per request: the return statement the handler left by
    dnsErr,    \* per request: the error createARecord returned
    dnsReqs,   \* per request: the rrset requests sent to the DNS service
    dnsAnswers, \* per request (history): what the DNS service did with each
               \* of them
    atStart,   \* per request (history): the entries that existed and the
               \* requests that were over when its body was decoded
    faulted,   \* (history) the requests one of whose system calls on the
               \* sites directory failed with an error of its own
    vlast      \* the last exchange on the validate-name endpoint

vars == <<alive, siteIP, dnsConf, fs, pc, req, resp, ret, dnsErr, dnsReqs,
          dnsAnswers, atStart, faulted, vlast>>

\* config.json of an entry: absent, left incomplete by a failed write, or a
\* SiteConfig.
NoConfig == [state |-> "absent", siteName |-> <<>>, description |-> 0]
PartialConfig == [state |-> "partial", siteName |-> <<>>, description |-> 0]
SiteConfig(siteName, description) ==
    [state |-> "written", siteName |-> siteName, description |-> description]

NoReq == [siteName |-> <<>>, description |-> 0]
NoResp == [status |-> 0, json |-> FALSE, success |-> FALSE, error |-> "", siteUrl |-> <<>>]

\* http.Error(w, msg, code)
HttpError(msg, code) ==
    [status |-> code, json |-> FALSE, success |-> FALSE, error |-> msg, siteUrl |-> <<>>]

\* respondJSON(w, siteCreationResponse{Success: false, Error: e})
JsonFailure(e) ==
    [status |-> 200, json |-> TRUE, success |-> FALSE, error |-> e, siteUrl |-> <<>>]

\* respondJSON(w, siteCreationResponse{Success: true, SiteURL: u})
JsonSuccess(u) ==
    [status |-> 200, json |-> TRUE, success |-> TRUE, error |-> "", siteUrl |-> u]

\* validationResponse, with the name it answers and the HTTP status.
Validation(siteName, status, json, valid, error) ==
    [siteName |-> siteName, status |-> status, json |-> json, valid |-> valid,
     error |-> error]

NoValidation == Validation(<< >>, 0, FALSE, FALSE, "")

Init ==
    /\ alive = TRUE
    /\ siteIP \in {"", "1.2.3.4"}
    /\ dnsConf \in BOOLEAN
    /\ fs = << >>
    /\ pc = [r \in Reqs |-> "idle"]
    /\ req = [r \in Reqs |-> NoReq]
    /\ resp = [r \in Reqs |-> NoResp]
    /\ ret = [r \in Reqs |-> "none"]
    /\ dnsErr = [r \in Reqs |-> Nil]
    /\ dnsReqs = [r \in Reqs |-> << >>]
    /\ dnsAnswers = [r \in Reqs |-> << >>]
    /\ atStart = [r \in Reqs |-> [entries |-> {}, finished |-> {}]]
    /\ faulted = {}
    /\ vlast = NoValidation

(***************************************************************************)
(* The functions of main.go                                                *)
(***************************************************************************)

\* os.Stat on <sitesBaseDir>/<siteName>, and what siteExists makes of it.
siteExists(siteName, fault) ==
    IF fault = "fault"
    THEN [exists |-> FALSE, err |-> "stat failed"]
    ELSE [exists |-> siteName \in DOMAIN fs, err |-> Nil]

\* Mutant of validateSiteName: the reserved words are looked up under the
\* name as sent, not lower-cased.
validateSiteName_CaseSensitive(siteName, fault) ==
    LET lower == ToLower(siteName) IN
    IF ~siteNameRegex(lower) THEN ErrSyntax
    ELSE IF siteName \in siteNameBlacklist THEN ErrReserved
    ELSE LET e == siteExists(lower, fault) IN
         IF e.err # Nil THEN ErrCheckingExistence
         ELSE IF e.exists THEN ErrExists
         ELSE Nil

\* Mutant of validateSiteName: the existence check comes first.
validateSiteName_ExistsFirst(siteName, fault) ==
    LET lower == ToLower(siteName)
        e == siteExists(lower, fault)
    IN  IF e.err # Nil THEN ErrCheckingExistence
        ELSE IF e.exists THEN ErrExists
        ELSE IF ~siteNameRegex(lower) THEN ErrSyntax
        ELSE IF lower \in siteNameBlacklist THEN ErrReserved
        ELSE Nil

\* The error validateSiteName returns, Nil for a name it accepts.
validateSiteName(siteName, fault) ==
    LET lower == ToLower(siteName) IN
    IF ~siteNameRegex(lower) THEN ErrSyntax
    ELSE IF lower \in siteNameBlacklist THEN ErrReserved
    ELSE LET e == siteExists(lower, fault) IN
         IF e.err # Nil THEN ErrCheckingExistence
         ELSE IF e.exists THEN ErrExists
         ELSE Nil

\* Mutant of Mkdir: a make-directory that accepts an existing entry, as
\* os.MkdirAll does.
Mkdir_NonExclusive(siteName, fault) ==
    IF fault = "fault" THEN "EACCES" ELSE "ok"

\* os.Mkdir(path, 0755): exclusive, it fails on an entry that exists.
Mkdir(siteName, fault) ==
    IF fault = "fault" THEN "EACCES"
    ELSE IF siteName \in DOMAIN fs THEN "EEXIST"
    ELSE "ok"

\* Mutant of createSiteDir: the error of os.Mkdir is handed on as it is.
createSiteDir_RawError(siteName, fault) ==
    LET e == Mkdir(siteName, fault) IN
    IF e = "ok" THEN << >>
    ELSE IF e = "EEXIST" THEN <<"mkdir", "file", "exists">>
    ELSE <<"mkdir", "permission", "denied">>

\* The error createSiteDir returns, as a sequence of words; << >> is nil.
createSiteDir(siteName, fault) ==
    LET e == Mkdir(siteName, fault) IN
    IF e = "ok" THEN << >>
    ELSE IF e = "EEXIST" THEN <<"site", "already", "exists">>
    ELSE <<"mkdir", "permission", "denied">>

\* strings.Contains on word sequences.
Contains(s, sub) ==
    \E i \in 1..(Len(s) - Len(sub) + 1) : SubSeq(s, i, i + Len(sub) - 1) = sub

\* writeSiteConfig: os.Create truncates or creates config.json, then the
\* encoder writes the record into it.  Either call can fail.
WriteOutcomes == {"ok", "create_failed", "encode_failed"}

\* Mutant of writeSiteConfig: a failed write removes the entry again.
writeSiteConfig_Rollback(siteName, config, outcome) ==
    IF outcome # "ok" \/ siteName \notin DOMAIN fs
    THEN [err |-> "write failed",
          fs |-> [n \in DOMAIN fs \ {siteName} |-> fs[n]]]
    ELSE [err |-> Nil, fs |-> [fs EXCEPT ![siteName] = config]]

writeSiteConfig(siteName, config, outcome) ==
    IF outcome = "create_failed" \/ siteName \notin DOMAIN fs
    THEN [err |-> "create failed", fs |-> fs]
    ELSE IF outcome = "encode_failed"
    THEN [err |-> "encode failed", fs |-> [fs EXCEPT ![siteName] = PartialConfig]]
    ELSE [err |-> Nil, fs |-> [fs EXCEPT ![siteName] = config]]

\* What the DNS service does with a request: 0 stands for a transport
\* failure, any other value is the HTTP status of its answer.
DnsOutcomes == {0, 200, 201, 500}

StatusCreated == 201

\* Mutant of createARecord: any answer but a server error counts as created.
createARecord_AcceptOK(subdomain, ip, outcome) ==
    IF ~dnsConf
    THEN [err |-> ErrDNSConfigMissing, sent |-> << >>]
    ELSE LET payload == [subname |-> subdomain, type |-> "A", ttl |-> 3600,
                         records |-> <<ip>>]
         IN  IF outcome = 0
             THEN [err |-> ErrDNSRequestFailed, sent |-> <<payload>>]
             ELSE IF outcome >= 500
             THEN [err |-> ErrDNSUnexpectedStatus, sent |-> <<payload>>]
             ELSE [err |-> Nil, sent |-> <<payload>>]

\* Mutant of createARecord: a request that failed is sent a second time.
createARecord_Retry(subdomain, ip, outcome) ==
    IF ~dnsConf
    THEN [err |-> ErrDNSConfigMissing, sent |-> << >>]
    ELSE LET payload == [subname |-> subdomain, type |-> "A", ttl |-> 3600,
                         records |-> <<ip>>]
         IN  IF outcome = 0
             THEN [err |-> ErrDNSRequestFailed, sent |-> <<payload, payload>>]
             ELSE IF outcome # StatusCreated
             THEN [err |-> ErrDNSUnexpectedStatus, sent |-> <<payload, payload>>]
             ELSE [err |-> Nil, sent |-> <<payload>>]

\* createARecord: the error it returns and the requests it has sent.
createARecord(subdomain, ip, outcome) ==
    IF ~dnsConf
    THEN [err |-> ErrDNSConfigMissing, sent |-> << >>]
    ELSE LET payload == [subname |-> subdomain, type |-> "A", ttl |-> 3600,
                         records |-> <<ip>>]
         IN  IF outcome = 0
             THEN [err |-> ErrDNSRequestFailed, sent |-> <<payload>>]
             ELSE IF outcome # StatusCreated
             THEN [err |-> ErrDNSUnexpectedStatus, sent |-> <<payload>>]
             ELSE [err |-> Nil, sent |-> <<payload>>]

\* Mutant of SiteURL: the URL carries the lower-cased name.
SiteURL_Lower(siteName) == <<"https://">> \o ToLower(siteName) \o <<".flox.click">>

\* Mutant of SiteURL: the name alone under the parent domain, no scheme.
SiteURL_NoScheme(siteName) == siteName \o <<".flox.click">>

\* fmt.Sprintf("https://%s.flox.click", siteName)
SiteURL(siteName) == <<"https://">> \o siteName \o <<".flox.click">>

(***************************************************************************)
(* createSiteHandler, one action per step between two system calls         *)
(***************************************************************************)

\* The handler returns: the response is written and the request is over.
Respond(r, response, line) ==
    /\ resp' = [resp EXCEPT ![r] = response]
    /\ ret' = [ret EXCEPT ![r] = line]
    /\ pc' = [pc EXCEPT ![r] = "done"]

\* The handler goes on to its next step.
Goto(r, step) ==
    /\ pc' = [pc EXCEPT ![r] = step]
    /\ UNCHANGED <<resp, ret>>

\* Mutant of DecodeFrom: the directory is made from whatever name the body
\* yields before the body is found not to be valid JSON.
DecodeFrom_ClaimBeforeDecode(r, names) ==
    /\ alive
    /\ pc[r] = "idle"
    /\ \E method \in {"POST", "GET"}, bodyOk \in BOOLEAN, name \in names :
          IF method # "POST"
          THEN /\ Respond(r, HttpError("Method not allowed", 405), "L591")
               /\ UNCHANGED <<req, atStart, fs>>
          ELSE IF ~bodyOk
          THEN /\ Respond(r, HttpError("Invalid JSON request", 400), "L599")
               /\ fs' = IF name \in DOMAIN fs THEN fs ELSE fs @@ (name :> NoConfig)
               /\ UNCHANGED <<req, atStart>>
          ELSE /\ req' = [req EXCEPT ![r] = [siteName |-> name, description |-> r]]
               /\ atStart' = [atStart EXCEPT ![r] =
                                 [entries |-> DOMAIN fs,
                                  finished |-> {q \in Reqs : pc[q] = "done"}]]
               /\ Goto(r, "validate")
               /\ fs' = fs
    /\ UNCHANGED <<vlast, alive, siteIP, dnsConf, dnsErr, dnsReqs, dnsAnswers, faulted>>

\* Method check and JSON decoding of the body, the site name drawn from
\* names.
DecodeFrom(r, names) ==
    /\ alive
    /\ pc[r] = "idle"
    /\ \E method \in {"POST", "GET"}, bodyOk \in BOOLEAN, name \in names :
          IF method # "POST"
          THEN /\ Respond(r, HttpError("Method not allowed", 405), "L591")
               /\ UNCHANGED <<req, atStart>>
          ELSE IF ~bodyOk
          THEN /\ Respond(r, HttpError("Invalid JSON request", 400), "L599")
               /\ UNCHANGED <<req, atStart>>
          ELSE /\ req' = [req EXCEPT ![r] = [siteName |-> name, description |-> r]]
               /\ atStart' = [atStart EXCEPT ![r] =
                                 [entries |-> DOMAIN fs,
                                  finished |-> {q \in Reqs : pc[q] = "done"}]]
               /\ Goto(r, "validate")
    /\ UNCHANGED <<vlast, alive, siteIP, dnsConf, fs, dnsErr, dnsReqs, dnsAnswers, faulted>>

Decode(r) == DecodeFrom(r, ReqNames)

\* Mutant of ValidateName: the directory is made before the name is
\* validated.
ValidateName_ClaimFirst(r) ==
    /\ alive
    /\ pc[r] = "validate"
    /\ \E fault \in Faults :
          LET err == validateSiteName(req[r].siteName, fault) IN
          /\ IF err # Nil
             THEN Respond(r, JsonFailure(err), "L605")
             ELSE Goto(r, "exists")
          /\ faulted' = IF err = ErrCheckingExistence THEN faulted \cup {r} ELSE faulted
    /\ fs' = fs @@ (req[r].siteName :> NoConfig)
    /\ UNCHANGED <<vlast, alive, siteIP, dnsConf, req, dnsErr, dnsReqs, dnsAnswers, atStart>>

\* validateSiteName(req.SiteName)
ValidateName(r) ==
    /\ alive
    /\ pc[r] = "validate"
    /\ \E fault \in Faults :
          LET err == validateSiteName(req[r].siteName, fault) IN
          /\ IF err # Nil
             THEN Respond(r, JsonFailure(err), "L605")
             ELSE Goto(r, "exists")
          /\ faulted' = IF err = ErrCheckingExistence THEN faulted \cup {r} ELSE faulted
    /\ UNCHANGED <<vlast, alive, siteIP, dnsConf, fs, req, dnsErr, dnsReqs, dnsAnswers, atStart>>

\* siteExists(req.SiteName)
CheckExists(r) ==
    /\ alive
    /\ pc[r] = "exists"
    /\ \E fault \in Faults :
          LET e == siteExists(req[r].siteName, fault) IN
          /\ IF e.err # Nil
             THEN Respond(r, HttpError("Internal Server Error", 500), "L613")
             ELSE IF e.exists
             THEN Respond(r, JsonFailure(ErrExists), "L617")
             ELSE Goto(r, "mkdir")
          /\ faulted' = IF e.err # Nil THEN faulted \cup {r} ELSE faulted
    /\ UNCHANGED <<vlast, alive, siteIP, dnsConf, fs, req, dnsErr, dnsReqs, dnsAnswers, atStart>>

\* createSiteDir(req.SiteName)
CreateDir(r) ==
    /\ alive
    /\ pc[r] = "mkdir"
    /\ \E fault \in Faults :
          LET err == createSiteDir(req[r].siteName, fault) IN
          /\ IF err # << >>
             THEN /\ IF Contains(err, <<"already", "exists">>)
                     THEN Respond(r, JsonFailure(ErrExists), "L625")
                     ELSE Respond(r, HttpError("Internal Server Error", 500), "L629")
                  /\ fs' = fs
             ELSE /\ fs' = fs @@ (req[r].siteName :> NoConfig)
                  /\ Goto(r, "write")
          /\ faulted' = IF Mkdir(req[r].siteName, fault) = "EACCES"
                        THEN faulted \cup {r} ELSE faulted
    /\ UNCHANGED <<vlast, alive, siteIP, dnsConf, req, dnsErr, dnsReqs, dnsAnswers, atStart>>

\* Mutant of WriteConfig: the error of writeSiteConfig is only logged.
WriteConfig_IgnoreError(r) ==
    /\ alive
    /\ pc[r] = "write"
    /\ \E outcome \in WriteOutcomes :
          LET config == SiteConfig(req[r].siteName, req[r].description)
              w == writeSiteConfig(req[r].siteName, config, outcome)
          IN  /\ fs' = w.fs
              /\ Goto(r, "siteip")
              /\ faulted' = IF w.err # Nil THEN faulted \cup {r} ELSE faulted
    /\ UNCHANGED <<vlast, alive, siteIP, dnsConf, req, dnsErr, dnsReqs, dnsAnswers, atStart>>

\* writeSiteConfig(sitesBaseDir, req.SiteName, config)
WriteConfig(r) ==
    /\ alive
    /\ pc[r] = "write"
    /\ \E outcome \in WriteOutcomes :
          LET config == SiteConfig(req[r].siteName, req[r].description)
              w == writeSiteConfig(req[r].siteName, config, outcome)
          IN  /\ fs' = w.fs
              /\ IF w.err # Nil
                 THEN Respond(r, HttpError("Internal Server Error", 500), "L642")
                 ELSE Goto(r, "siteip")
              /\ faulted' = IF w.err # Nil THEN faulted \cup {r} ELSE faulted
    /\ UNCHANGED <<vlast, alive, siteIP, dnsConf, req, dnsErr, dnsReqs, dnsAnswers, atStart>>

\* siteIP := os.Getenv("SITE_IP"); log.Fatal ends the process when it is empty.
CheckSiteIP(r) ==
    /\ alive
    /\ pc[r] = "siteip"
    /\ IF siteIP = ""
       THEN /\ alive' = FALSE
            /\ pc' = pc
       ELSE /\ pc' = [pc EXCEPT ![r] = "dns"]
            /\ alive' = alive
    /\ UNCHANGED <<vlast, siteIP, dnsConf, fs, req, resp, ret, dnsErr, dnsReqs, dnsAnswers, atStart,
                 faulted>>

\* Mutant of PublishDNS: an error of createARecord is answered with a 500.
PublishDNS_FailOnError(r) ==
    /\ alive
    /\ pc[r] = "dns"
    /\ \E outcome \in DnsOutcomes :
          LET d == createARecord(req[r].siteName, siteIP, outcome) IN
          /\ dnsErr' = [dnsErr EXCEPT ![r] = d.err]
          /\ dnsReqs' = [dnsReqs EXCEPT ![r] = dnsReqs[r] \o d.sent]
          /\ dnsAnswers' = [dnsAnswers EXCEPT ![r] =
                               dnsAnswers[r] \o [i \in 1..Len(d.sent) |-> outcome]]
          /\ IF d.err # Nil
             THEN Respond(r, HttpError("Internal Server Error", 500), "L651")
             ELSE Respond(r, JsonSuccess(SiteURL(req[r].siteName)), "L657")
    /\ UNCHANGED <<vlast, alive, siteIP, dnsConf, fs, req, atStart, faulted>>

\* createARecord(req.SiteName, siteIP), whose error is only logged, and the
\* success response.
PublishDNS(r) ==
    /\ alive
    /\ pc[r] = "dns"
    /\ \E outcome \in DnsOutcomes :
          LET d == createARecord(req[r].siteName, siteIP, outcome) IN
          /\ dnsErr' = [dnsErr EXCEPT ![r] = d.err]
          /\ dnsReqs' = [dnsReqs EXCEPT ![r] = dnsReqs[r] \o d.sent]
          /\ dnsAnswers' = [dnsAnswers EXCEPT ![r] =
                               dnsAnswers[r] \o [i \in 1..Len(d.sent) |-> outcome]]
    /\ Respond(r, JsonSuccess(SiteURL(req[r].siteName)), "L657")
    /\ UNCHANGED <<vlast, alive, siteIP, dnsConf, fs, req, atStart, faulted>>

\* One step of the handler serving request r, once its body is decoded.
HandlerSteps(r) ==
    \/ ValidateName(r)
    \/ CheckExists(r)
    \/ CreateDir(r)
    \/ WriteConfig(r)
    \/ CheckSiteIP(r)
    \/ PublishDNS(r)

\* One step of the handler serving request r.
createSiteHandler(r) == Decode(r) \/ HandlerSteps(r)

Next == \E r \in Reqs : createSiteHandler(r)

Spec == Init /\ [][Next]_vars

(***************************************************************************)
(* validateSiteNameHandler and the specifications that exercise it         *)
(***************************************************************************)

\* Mutant of validateSiteNameHandler: validating a free name reserves it.
validateSiteNameHandler_Reserving(name) ==
    /\ alive
    /\ \E method \in {"POST", "GET"}, bodyOk \in BOOLEAN, fault \in Faults :
          IF method # "POST"
          THEN /\ vlast' = Validation(<< >>, 405, FALSE, FALSE, "Method not allowed")
               /\ fs' = fs
          ELSE IF ~bodyOk
          THEN /\ vlast' = Validation(<< >>, 400, TRUE, FALSE, "Invalid JSON request")
               /\ fs' = fs
          ELSE LET err == validateSiteName(name, fault) IN
               /\ vlast' = Validation(name, 200, TRUE, err = Nil, err)
               /\ fs' = IF err = Nil THEN fs @@ (ToLower(name) :> NoConfig) ELSE fs
    /\ UNCHANGED <<alive, siteIP, dnsConf, pc, req, resp, ret, dnsErr, dnsReqs, dnsAnswers,
                   atStart, faulted>>

\* validateSiteNameHandler serving one request that carries name: method
\* check, JSON decoding, validateSiteName, response.
validateSiteNameHandler(name) ==
    /\ alive
    /\ \E method \in {"POST", "GET"}, bodyOk \in BOOLEAN, fault \in Faults :
          IF method # "POST"
          THEN vlast' = Validation(<< >>, 405, FALSE, FALSE, "Method not allowed")
          ELSE IF ~bodyOk
          THEN vlast' = Validation(<< >>, 400, TRUE, FALSE, "Invalid JSON request")
          ELSE LET err == validateSiteName(name, fault) IN
               vlast' = Validation(name, 200, TRUE, err = Nil, err)
    /\ UNCHANGED <<alive, siteIP, dnsConf, fs, pc, req, resp, ret, dnsErr, dnsReqs, dnsAnswers,
                   atStart, faulted>>

\* n times the character c.
Rep(c, n) == [i \in 1..n |-> c]

\* The names sent to the validate-name endpoint alone: every shape the
\* pattern tells apart, and the reserved words in several spellings.
ValNames ==
    { << >>,
      <<"a">>, <<"7">>, <<"a", "b">>, <<"A", "b">>, <<"a", "-", "b">>,
      <<"m", "y", "-", "s", "i", "t", "e">>,
      Rep("a", 62), Rep("a", 63), Rep("a", 64), Rep("A", 63),
      <<"a">> \o Rep("-", 61) \o <<"b">>,
      <<"a">> \o Rep("-", 62) \o <<"b">>,
      Rep("a", 62) \o <<"-">>,
      <<"-">>, <<"-", "a">>, <<"a", "-">>, <<"-", "b", "a", "d", "-">>,
      <<"a", "_", "b">>, <<"a", " ", "b">>, <<"a", ".", "b">>, <<"a", "b", "\n">>,
      <<"w", "w", "w">>, <<"m", "a", "i", "l">>, <<"f", "t", "p">>,
      <<"a", "d", "m", "i", "n">>, <<"a", "p", "i">>,
      <<"A", "P", "I">>, <<"W", "w", "W">>, <<"M", "a", "i", "l">>,
      <<"F", "T", "p">>, <<"a", "D", "M", "I", "n">>,
      <<"a", "p", "i", "1">> }

\* Entries the sites directory can hold when the server starts: it is a
\* directory on disk that init() takes as it finds it.
StartEntries ==
    { <<"a", "b">>, <<"a", "p", "i">>, <<"-", "a">>, <<"a", "_", "b">>, Rep("a", 63) }

\* The server starts on any sites directory; no create request comes in.
InitV ==
    /\ alive = TRUE
    /\ siteIP \in {"", "1.2.3.4"}
    /\ dnsConf \in BOOLEAN
    /\ fs \in { [n \in S |-> NoConfig] : S \in SUBSET StartEntries }
    /\ pc = [r \in Reqs |-> "idle"]
    /\ req = [r \in Reqs |-> NoReq]
    /\ resp = [r \in Reqs |-> NoResp]
    /\ ret = [r \in Reqs |-> "none"]
    /\ dnsErr = [r \in Reqs |-> Nil]
    /\ dnsReqs = [r \in Reqs |-> << >>]
    /\ dnsAnswers = [r \in Reqs |-> << >>]
    /\ atStart = [r \in Reqs |-> [entries |-> {}, finished |-> {}]]
    /\ faulted = {}
    /\ vlast = NoValidation

NextV == \E name \in ValNames : validateSiteNameHandler(name)

\* The validate-name endpoint alone.
SpecV == InitV /\ [][NextV]_vars

\* The names sent to both endpoints when they are served together.
ApiNames ==
    { <<"m", "y", "-", "s", "i", "t", "e">>, <<"a", "p", "i">>, <<"W", "w", "W">> }

NextAPI ==
    \/ \E r \in Reqs : DecodeFrom(r, ApiNames) \/ HandlerSteps(r)
    \/ \E name \in ApiNames : validateSiteNameHandler(name)

\* Both endpoints served together.
SpecAPI == Init /\ [][NextAPI]_vars

\* One name in two spellings, sent to both endpoints.
CaseNames == { <<"A", "b">>, <<"a", "b">> }

NextCase ==
    \/ \E r \in Reqs : DecodeFrom(r, CaseNames) \/ HandlerSteps(r)
    \/ \E name \in CaseNames : validateSiteNameHandler(name)

\* Both endpoints served together, on names that differ in case only.
SpecCase == Init /\ [][NextCase]_vars

(***************************************************************************)
(* Where a request stands                                                  *)
(***************************************************************************)

\* The body was decoded: the request carries a site name.
Decoded(r) == pc[r] # "idle" /\ ret[r] \notin {"L591", "L599"}

\* The handler has returned.
Done(r) == pc[r] = "done"

\* createSiteDir returned nil to this request, which holds the claim: the
\* handler is past line 630.
Claimed(r) ==
    /\ Decoded(r)
    /\ pc[r] \notin {"validate", "exists", "mkdir"}
    /\ ret[r] \notin {"L605", "L613", "L617", "L625", "L629"}

\* writeSiteConfig returned nil to this request: the handler is past line 643.
Recorded(r) == Claimed(r) /\ pc[r] # "write" /\ ret[r] # "L642"

\* The decoded requests that carry name n.
Carrying(n) == {r \in Reqs : Decoded(r) /\ req[r].siteName = n}

(***************************************************************************)
(* C1  Uniqueness of the claim                                             *)
(***************************************************************************)

\* C1: of the create requests that carry one and the same name, at most one
\* gets nil from createSiteDir and at most one is answered success=true,
\* in every interleaving.
C1_AtMostOneClaim ==
    \A r1, r2 \in Reqs :
        (r1 # r2 /\ Decoded(r1) /\ Decoded(r2) /\ req[r1].siteName = req[r2].siteName)
        => /\ ~(Claimed(r1) /\ Claimed(r2))
           /\ ~(resp[r1].success /\ resp[r2].success)

\* Two requests for one name both passed validateSiteName and siteExists
\* before either created the directory; one was answered success, the other
\* lost at os.Mkdir.
C1_Witness ==
    \E r1, r2 \in Reqs :
        /\ r1 # r2
        /\ req[r1].siteName = req[r2].siteName
        /\ atStart[r1].entries = {} /\ atStart[r2].entries = {}
        /\ resp[r1].success
        /\ ret[r2] = "L625"

(***************************************************************************)
(* C2  The losers of a race get the user-facing failure                    *)
(***************************************************************************)

\* C2: when all requests that carry one valid, non-reserved name, claimed
\* by nobody else (no request carries its lower-case form spelled
\* otherwise), are over and none of them met a storage failure, exactly one
\* of them was answered success=true and every other one {success:false,
\* "site name already exists"}; none was answered with an Internal Server
\* Error.
C2_OneWinnerOthersAlreadyExist ==
    \A n \in ReqNames :
        LET S == Carrying(n) IN
        ( /\ S # {}
          /\ siteNameRegex(ToLower(n))
          /\ ToLower(n) \notin siteNameBlacklist
          /\ (n = ToLower(n) \/ Carrying(ToLower(n)) = {})
          /\ \A r \in S : Done(r) /\ r \notin faulted )
        => /\ Cardinality({r \in S : resp[r] = JsonSuccess(SiteURL(n))}) = 1
           /\ \A r \in S : resp[r].success \/ resp[r] = JsonFailure(ErrExists)

\* Two requests raced for one name without any failure: one won, the other
\* lost at os.Mkdir and was answered "site name already exists".
C2_Witness ==
    \E r1, r2 \in Reqs :
        /\ r1 # r2
        /\ req[r1].siteName = req[r2].siteName
        /\ faulted = {}
        /\ resp[r1] = JsonSuccess(SiteURL(req[r1].siteName))
        /\ ret[r2] = "L625"
        /\ resp[r2] = JsonFailure(ErrExists)

(***************************************************************************)
(* C3  The namespace only grows                                            *)
(***************************************************************************)

\* The entry of the request's name existed when the request came in.
Later(r) == Decoded(r) /\ req[r].siteName \in atStart[r].entries

\* No step removes an entry of the namespace.
NamespaceGrows == \A n \in DOMAIN fs : n \in DOMAIN fs'

\* C3 as stated: no operation removes an entry, and every later create
\* request for the name of an entry is answered {success:false, "site name
\* already exists"}.
C3_Original ==
    /\ [][NamespaceGrows]_vars
    /\ [](\A r \in Reqs : (Later(r) /\ Done(r)) => resp[r] = JsonFailure(ErrExists))

\* C3 amended: no operation removes an entry, and a later create request
\* for the name of an entry never obtains the claim nor success=true; it is
\* answered {success:false, "site name already exists"} unless one of its
\* own existence checks fails, in which case it is answered with that
\* failure.
C3_Amended ==
    /\ [][NamespaceGrows]_vars
    /\ [](\A r \in Reqs :
            Later(r) =>
               /\ ~Claimed(r)
               /\ ~resp[r].success
               /\ (Done(r) /\ r \notin faulted) => resp[r] = JsonFailure(ErrExists)
               /\ (Done(r) /\ r \in faulted) =>
                     resp[r] \in { JsonFailure(ErrCheckingExistence),
                                   HttpError("Internal Server Error", 500) })

\* The same name claimed twice in sequence: success first, "site name
\* already exists" second.
C3_Witness ==
    \E r1, r2 \in Reqs :
        /\ r1 \in atStart[r2].finished
        /\ req[r1].siteName = req[r2].siteName
        /\ resp[r1] = JsonSuccess(SiteURL(req[r1].siteName))
        /\ resp[r2] = JsonFailure(ErrExists)

(***************************************************************************)
(* C4  A DNS failure does not revert the claim                             *)
(***************************************************************************)

\* createARecord returned an error to this request.
DnsFailed(r) == dnsErr[r] # Nil

\* Request q carries the name of request r and came in after r was over.
Subsequent(q, r) ==
    /\ Decoded(q)
    /\ r \in atStart[q].finished
    /\ req[q].siteName = req[r].siteName

\* The entry of r's name exists and holds the SiteRecord r wrote.
RecordInPlace(r) ==
    /\ req[r].siteName \in DOMAIN fs
    /\ fs[req[r].siteName] = SiteConfig(req[r].siteName, req[r].description)

\* C4 as stated: after createARecord failed, the entry and the SiteRecord
\* are in place, the request is answered success=true with the site URL,
\* and a subsequent create request for the name is answered "site name
\* already exists".
C4_Original ==
    \A r \in Reqs :
        DnsFailed(r) =>
           /\ Recorded(r)
           /\ RecordInPlace(r)
           /\ resp[r] = JsonSuccess(SiteURL(req[r].siteName))
           /\ \A q \in Reqs :
                 (Subsequent(q, r) /\ Done(q)) => resp[q] = JsonFailure(ErrExists)

\* C4 amended: after createARecord failed, the entry and the SiteRecord are
\* in place, the request is answered success=true with the site URL, and a
\* subsequent create request for the name never succeeds: it is answered
\* "site name already exists" unless one of its own existence checks fails.
C4_Amended ==
    \A r \in Reqs :
        DnsFailed(r) =>
           /\ Recorded(r)
           /\ RecordInPlace(r)
           /\ resp[r] = JsonSuccess(SiteURL(req[r].siteName))
           /\ \A q \in Reqs :
                 Subsequent(q, r) =>
                    /\ ~Claimed(q)
                    /\ ~resp[q].success
                    /\ (Done(q) /\ q \notin faulted) => resp[q] = JsonFailure(ErrExists)

\* createARecord failed on a status other than 201, the request was answered
\* success, and a subsequent request for the name was turned away.
C4_Witness ==
    \E r, q \in Reqs :
        /\ dnsErr[r] = ErrDNSUnexpectedStatus
        /\ resp[r].success
        /\ Subsequent(q, r)
        /\ resp[q] = JsonFailure(ErrExists)

(***************************************************************************)
(* C5  Once claimed, a request reaches Done with success                   *)
(***************************************************************************)

\* C5: a request whose claim succeeded (directory made, SiteRecord written)
\* and that can take no further step has reached Done and was answered
\* success=true: there is no other terminal state.
C5_Original ==
    \A r \in Reqs :
        (Recorded(r) /\ ~ENABLED createSiteHandler(r))
        => (Done(r) /\ resp[r].success)

(***************************************************************************)
(* C6  No request-time error terminates the process                        *)
(***************************************************************************)

\* C6: once requests are being served the process is never terminated.
C6_Original == \A r \in Reqs : pc[r] # "idle" => alive

(***************************************************************************)
(* C7  A name rejected by validateSiteName leaves no trace                 *)
(***************************************************************************)

\* C7: a step that takes a request out of validation is decided by
\* validateSiteName: when it rejects the name the handler returns
\* {success:false, error: the validator's reason}; up to and including that
\* step the request has changed neither the namespace nor the DNS requests.
C7_RejectedWithoutEffect ==
    [][\A r \in Reqs :
          /\ (pc[r] \in {"idle", "validate"} /\ pc'[r] # pc[r])
             => (fs' = fs /\ dnsReqs' = dnsReqs)
          /\ (pc[r] = "validate" /\ pc'[r] # pc[r])
             => \E fault \in Faults :
                   LET err == validateSiteName(req[r].siteName, fault) IN
                   IF err # Nil
                   THEN pc'[r] = "done" /\ resp'[r] = JsonFailure(err)
                   ELSE pc'[r] = "exists" /\ resp'[r] = resp[r]]_vars

\* A request was rejected by validateSiteName because the name exists.
C7_Witness ==
    \E r \in Reqs :
        /\ ret[r] = "L605"
        /\ resp[r] = JsonFailure(ErrExists)
        /\ req[r].siteName \in DOMAIN fs
        /\ dnsReqs[r] = << >>

(***************************************************************************)
(* C8  What a finished request leaves behind                               *)
(***************************************************************************)

\* The request reports failure and has made no side effect.
FailedClean(r) ==
    /\ ~resp[r].success
    /\ ~Claimed(r)
    /\ dnsReqs[r] = << >>

\* The request reports success, holds the claim and its SiteRecord is written.
Succeeded(r) ==
    /\ resp[r] = JsonSuccess(SiteURL(req[r].siteName))
    /\ Claimed(r)
    /\ RecordInPlace(r)

\* The request holds the claim, its record write failed and it was answered
\* with a 500: the entry stays, without a complete SiteRecord and without a
\* DNS request.
FailedHoldingClaim(r) ==
    /\ resp[r] = HttpError("Internal Server Error", 500)
    /\ Claimed(r)
    /\ r \in faulted
    /\ req[r].siteName \in DOMAIN fs
    /\ fs[req[r].siteName].state # "written"
    /\ dnsReqs[r] = << >>

\* C8 as stated: a finished request either reports failure having made no
\* side effect, or reports success with the claim and the SiteRecord.
C8_Original ==
    \A r \in Reqs : Done(r) => (FailedClean(r) \/ Succeeded(r))

\* C8 amended: a finished request either reports failure having made no
\* side effect, or reports success with the claim and the SiteRecord, or
\* reports an internal failure after its record write failed, the entry it
\* created left in place.
C8_Amended ==
    \A r \in Reqs : Done(r) => (FailedClean(r) \/ Succeeded(r) \/ FailedHoldingClaim(r))

\* A request was answered with a 500 and has consumed the name.
C8_Witness ==
    \E r \in Reqs : Done(r) /\ FailedHoldingClaim(r)

(***************************************************************************)
(* C9  A failed record write is not rolled back                            *)
(***************************************************************************)

\* createSiteDir succeeded for this request and writeSiteConfig failed.
WriteFailed(r) == Claimed(r) /\ r \in faulted

\* C9 as stated: after a failed record write the entry stays, the request
\* is answered with a 500 and has sent no DNS request, and every later
\* create request for the name is answered "site name already exists".
C9_Original ==
    \A r \in Reqs :
        WriteFailed(r) =>
           /\ req[r].siteName \in DOMAIN fs
           /\ Done(r) /\ resp[r] = HttpError("Internal Server Error", 500)
           /\ dnsReqs[r] = << >>
           /\ \A q \in Reqs :
                 (Subsequent(q, r) /\ Done(q)) => resp[q] = JsonFailure(ErrExists)

\* C9 amended: after a failed record write the entry stays, the request is
\* answered with a 500 and has sent no DNS request, and a later create
\* request for the name never succeeds: it is answered "site name already
\* exists" unless one of its own existence checks fails.
C9_Amended ==
    \A r \in Reqs :
        WriteFailed(r) =>
           /\ req[r].siteName \in DOMAIN fs
           /\ Done(r) /\ resp[r] = HttpError("Internal Server Error", 500)
           /\ dnsReqs[r] = << >>
           /\ \A q \in Reqs :
                 Subsequent(q, r) =>
                    /\ ~Claimed(q)
                    /\ ~resp[q].success
                    /\ (Done(q) /\ q \notin faulted) => resp[q] = JsonFailure(ErrExists)

\* A record write failed, and a later request for the name was turned away.
C9_Witness ==
    \E r, q \in Reqs :
        /\ WriteFailed(r)
        /\ fs[req[r].siteName].state = "partial"
        /\ Subsequent(q, r)
        /\ resp[q] = JsonFailure(ErrExists)

(***************************************************************************)
(* C10  Every entry is a valid, normalized SiteName                        *)
(***************************************************************************)

\* The spec's SiteName: lower case, 1-63 characters of [a-z0-9-], no hyphen
\* at either end, not reserved.
ValidSiteName(n) ==
    /\ n = ToLower(n)
    /\ Len(n) >= 1 /\ Len(n) <= 63
    /\ \A i \in 1..Len(n) : n[i] \in LowerLetters \cup Digits \cup {Hyphen}
    /\ n[1] # Hyphen /\ n[Len(n)] # Hyphen
    /\ n \notin siteNameBlacklist

\* C10: every entry of the namespace is a valid SiteName, and that
\* normalized name is the siteName of its SiteRecord, the subname of the DNS
\* request and the host label of the site URL.
C10_Original ==
    /\ \A n \in DOMAIN fs :
          /\ ValidSiteName(n)
          /\ fs[n].state = "written" => fs[n].siteName = n
    /\ \A r \in Reqs :
          /\ \A i \in 1..Len(dnsReqs[r]) : ValidSiteName(dnsReqs[r][i].subname)
          /\ resp[r].success => resp[r].siteUrl = SiteURL(ToLower(req[r].siteName))

(***************************************************************************)
(* C11  Uniqueness up to normalization                                     *)
(***************************************************************************)

\* C11: names equal after lower-casing are the same name: among the create
\* requests carrying them at most one succeeds, and the namespace never
\* holds two entries whose lower-cased forms are equal.
C11_Original ==
    /\ \A n, k \in DOMAIN fs : ToLower(n) = ToLower(k) => n = k
    /\ \A q, r \in Reqs :
          /\ Decoded(q) /\ Decoded(r)
          /\ ToLower(req[q].siteName) = ToLower(req[r].siteName)
          /\ resp[q].success /\ resp[r].success
          => q = r

(***************************************************************************)
(* C12  The syntax decision of validateSiteName                            *)
(***************************************************************************)

\* The spec's syntax rule, on the lower-cased name: 1 to 63 characters, each
\* a lower-case letter, a digit or a hyphen, no hyphen first or last.
SpecAlphabet ==
    { "a", "b", "c", "d", "e", "f", "g", "h", "i", "j", "k", "l", "m", "n",
      "o", "p", "q", "r", "s", "t", "u", "v", "w", "x", "y", "z",
      "0", "1", "2", "3", "4", "5", "6", "7", "8", "9", "-" }

SpecSyntaxOk(n) ==
    /\ Len(n) \in 1..63
    /\ \A i \in 1..Len(n) : n[i] \in SpecAlphabet
    /\ n[1] # "-"
    /\ n[Len(n)] # "-"

\* The last exchange was a decoded validation request.
Validated == vlast.status = 200

\* C12 as stated: validateSiteName answers the syntax error exactly for the
\* names whose lower-cased form breaks the spec's rule (empty, 64
\* characters, hyphen first or last, a character outside the alphabet), and
\* every well-formed name that is neither reserved nor claimed is answered
\* valid.
C12_Original ==
    Validated =>
       LET n == ToLower(vlast.siteName) IN
       /\ vlast.error = ErrSyntax <=> ~SpecSyntaxOk(n)
       /\ ( /\ SpecSyntaxOk(n)
            /\ n \notin siteNameBlacklist
            /\ n \notin DOMAIN fs )
          => vlast.valid /\ vlast.error = Nil

\* C12 amended: the syntax decision is the spec's rule for every input, and
\* a well-formed name that is neither reserved nor claimed is answered
\* valid, or, when the existence check itself fails, invalid with the
\* existence-check error.
C12_Amended ==
    Validated =>
       LET n == ToLower(vlast.siteName) IN
       /\ vlast.error = ErrSyntax <=> ~SpecSyntaxOk(n)
       /\ ( /\ SpecSyntaxOk(n)
            /\ n \notin siteNameBlacklist
            /\ n \notin DOMAIN fs )
          => \/ vlast.valid /\ vlast.error = Nil
             \/ ~vlast.valid /\ vlast.error = ErrCheckingExistence

\* A 63-character name that nobody holds was accepted.
C12_Witness ==
    /\ Validated
    /\ Len(vlast.siteName) = 63
    /\ vlast.valid
    /\ Rep("a", 63) \notin DOMAIN fs

\* A 64-character name was refused.
C12_Refused64 ==
    /\ Validated
    /\ Len(vlast.siteName) = 64
    /\ vlast.error = ErrSyntax

(***************************************************************************)
(* C13  Reserved names, in any case                                        *)
(***************************************************************************)

Reserved(n) == ToLower(n) \in siteNameBlacklist

\* C13: a name whose lower-cased form is www, mail, ftp, admin or api, in
\* any mix of case, is answered "site name is reserved or forbidden" by
\* validateSiteName, on the validate endpoint and in a create request, and
\* no create request for such a name ever creates a namespace entry.
C13_ReservedRefused ==
    /\ Validated /\ Reserved(vlast.siteName)
          => ~vlast.valid /\ vlast.error = ErrReserved
    /\ \A r \in Reqs :
          Decoded(r) /\ Reserved(req[r].siteName) =>
             /\ pc[r] \in {"validate", "done"}
             /\ Done(r) => resp[r] = JsonFailure(ErrReserved)
             /\ ~Claimed(r)
    /\ \A n \in DOMAIN fs : ~Reserved(n)

\* A create request for "WwW" was refused as reserved, and so was the last
\* validation of a reserved name in another spelling.
C13_Witness ==
    /\ Validated /\ vlast.siteName = <<"a", "p", "i">> /\ vlast.error = ErrReserved
    /\ \E r \in Reqs :
          /\ Done(r)
          /\ req[r].siteName = <<"W", "w", "W">>
          /\ resp[r] = JsonFailure(ErrReserved)

(***************************************************************************)
(* C14  The validate endpoint has no side effects                          *)
(***************************************************************************)

\* A step that moves no create request and does not end the process: with
\* both endpoints served, a step of validateSiteNameHandler.
ValidateStep == pc' = pc /\ alive' = alive

\* C14: in any state and any interleaving with create requests, a
\* validation leaves the namespace, every SiteRecord, the DNS requests
\* issued and everything a create request holds or reads (its name, its
\* position, its response, the environment) unchanged.
C14_ValidateHasNoEffect ==
    [][ValidateStep =>
           UNCHANGED <<fs, dnsReqs, dnsAnswers, dnsErr, req, resp, ret, siteIP, dnsConf,
                       atStart, faulted>>]_vars

\* A validation ran between the directory creation and the record write of
\* the only create request there is, and saw its entry.
C14_Witness ==
    /\ Validated
    /\ vlast.siteName = <<"m", "y", "-", "s", "i", "t", "e">>
    /\ vlast.error = ErrExists
    /\ \E r \in Reqs :
          /\ pc[r] = "write"
          /\ req[r].siteName = vlast.siteName
          /\ fs[req[r].siteName] = NoConfig
          /\ \A q \in Reqs \ {r} : pc[q] = "idle"

(***************************************************************************)
(* C15  The shape of a create response                                     *)
(***************************************************************************)

MySite == <<"m", "y", "-", "s", "i", "t", "e">>

\* C15: a create response with success=true carries the URL "https://" +
\* the name the request claimed + ".flox.click" and no error; a response
\* with success=false carries an error and no URL; a request for "my-site"
\* that meets no other request for it and no failure is answered
\* {success:true, siteUrl:"https://my-site.flox.click"}.
C15_ResponseShape ==
    \A r \in Reqs :
        /\ Done(r) /\ resp[r].json =>
              IF resp[r].success
              THEN /\ Claimed(r)
                   /\ req[r].siteName \in DOMAIN fs
                   /\ resp[r].siteUrl = <<"https://">> \o req[r].siteName \o <<".flox.click">>
                   /\ resp[r].error = ""
              ELSE /\ resp[r].error # ""
                   /\ resp[r].siteUrl = << >>
        /\ Carrying(MySite) = {r} /\ Done(r) /\ r \notin faulted =>
              /\ resp[r].success
              /\ resp[r].siteUrl =
                    <<"https://", "m", "y", "-", "s", "i", "t", "e", ".flox.click">>
              /\ resp[r].error = ""

\* "my-site" was created and another request was refused in JSON.
C15_Witness ==
    \E q, r \in Reqs :
        /\ Done(r) /\ req[r].siteName = MySite /\ resp[r].success
        /\ Done(q) /\ resp[q].json /\ ~resp[q].success

(***************************************************************************)
(* C16  A SiteRecord is written once and never touched again               *)
(***************************************************************************)

\* Request r holds the claim of n and is the one taking this step, out of
\* its record write.
WritesRecord(r, n) ==
    /\ pc[r] = "write" /\ pc'[r] # "write"
    /\ req[r].siteName = n
    /\ Claimed(r)
    /\ \A q \in Carrying(n) \ {r} : ~Claimed(q)

\* C16: over every step of every interleaving of validations and creates,
\* no entry is removed, the config.json of an entry changes only from
\* absent, in a step of the one request whose directory creation succeeded,
\* and once written or truncated it is never changed again.
C16_RecordWrittenOnce ==
    [][ /\ DOMAIN fs \subseteq DOMAIN fs'
        /\ \A n \in DOMAIN fs :
              fs'[n] # fs[n] =>
                 /\ fs[n] = NoConfig
                 /\ \E r \in Reqs : WritesRecord(r, n)
        /\ \A n \in DOMAIN fs' \ DOMAIN fs : fs'[n] = NoConfig ]_vars

\* The record of "my-site" is written, by the winner, and a second request
\* for the name has come and gone.
C16_Witness ==
    \E q, r \in Reqs :
        /\ q # r
        /\ req[q].siteName = MySite /\ req[r].siteName = MySite
        /\ Done(q) /\ Done(r)
        /\ resp[r].success /\ resp[q] = JsonFailure(ErrExists)
        /\ fs[MySite] = SiteConfig(MySite, r)

(***************************************************************************)
(* C17  One DNS attempt, no retry                                          *)
(***************************************************************************)

\* The address-record requests sent for name n, each by its sender and its
\* place among the sender's requests.
DnsRequestsFor(n) ==
    UNION { { <<r, i>> : i \in {j \in 1..Len(dnsReqs[r]) : dnsReqs[r][j].subname = n} } :
            r \in Reqs }

\* C17: each create request sends at most one address-record request,
\* whether it is answered 201, answered otherwise or not answered, and at
\* most one such request is ever sent for any claimed name.
C17_SingleAttempt ==
    /\ \A r \in Reqs : Len(dnsReqs[r]) <= 1
    /\ \A n \in ReqNames : Cardinality(DnsRequestsFor(n)) <= 1

\* The DNS request of a finished create failed, and it was sent once; a
\* second request for the name has come and gone without sending one.
C17_Witness ==
    \E q, r \in Reqs :
        /\ q # r
        /\ Done(r) /\ Done(q)
        /\ req[q].siteName = req[r].siteName
        /\ dnsErr[r] \in {ErrDNSRequestFailed, ErrDNSUnexpectedStatus}
        /\ Len(dnsReqs[r]) = 1
        /\ dnsReqs[q] = << >>

(***************************************************************************)
(* C18  Storage failures are answered as internal errors                   *)
(***************************************************************************)

\* C18: a create request that met a storage failure (in the existence
\* check of validateSiteName, in siteExists, in the directory creation
\* other than already-exists, or in the record write) is answered with the
\* generic internal error, never with a success=false response that carries
\* the text of the storage error.
C18_Original ==
    \A r \in faulted :
        Done(r) =>
           /\ resp[r] = HttpError("Internal Server Error", 500)
           /\ ~resp[r].json

(***************************************************************************)
(* C19  The DNS request comes after the claim and the record               *)
(***************************************************************************)

\* The names an address-record request has been sent for.
DnsNames == {dnsReqs[r][i].subname : <<r, i>> \in UNION {DnsRequestsFor(n) : n \in ReqNames}}

\* Request r has made its entry and written its record, both in place.
EntryAndRecord(r) ==
    /\ Recorded(r)
    /\ req[r].siteName \in DOMAIN fs
    /\ fs[req[r].siteName] = SiteConfig(req[r].siteName, req[r].description)

\* In every state: whoever has sent a DNS request sent it for its own name,
\* holding entry and record; the names sent are among the names with entry
\* and record; a request answered with a failure has sent none.
C19_State ==
    /\ \A r \in Reqs :
          /\ dnsReqs[r] # << >> =>
                /\ EntryAndRecord(r)
                /\ \A i \in 1..Len(dnsReqs[r]) : dnsReqs[r][i].subname = req[r].siteName
          /\ Done(r) /\ ~resp[r].success => dnsReqs[r] = << >>
    /\ DnsNames \subseteq {n \in DOMAIN fs : fs[n].state = "written"}

\* C19: an address-record request for a name is sent only by a request
\* that, before that step, has created the entry and written the SiteRecord
\* of the name; so the names with a DNS request are always among the names
\* with entry and record, and a request that failed validation, lost the
\* race or failed a storage step never sends one.
C19_DnsAfterClaimAndRecord ==
    /\ []C19_State
    /\ [][\A r \in Reqs : dnsReqs'[r] # dnsReqs[r] => EntryAndRecord(r)]_vars

\* One request has sent its DNS request; another lost the race for the
\* same name and sent none.
C19_Witness ==
    \E q, r \in Reqs :
        /\ dnsReqs[r] # << >>
        /\ Done(q) /\ resp[q] = JsonFailure(ErrExists)
        /\ req[q].siteName = req[r].siteName
        /\ q \notin faulted
        /\ dnsReqs[q] = << >>

(***************************************************************************)
(* C20  The order of the checks of validateSiteName                        *)
(***************************************************************************)

\* The name validated last is an entry of the namespace, as sent or
\* lower-cased.
HasEntry == vlast.siteName \in DOMAIN fs \/ ToLower(vlast.siteName) \in DOMAIN fs

\* C20: validateSiteName checks syntax, then the reserved words, then
\* existence, stopping at the first failure: a name that breaks the syntax
\* rule gets the syntax error and a reserved name gets the reserved error
\* even when an entry of that name exists or the existence check would
\* fail; only a well-formed, non-reserved name is answered from the
\* existence check.
C20_CheckOrder ==
    Validated =>
       LET n == ToLower(vlast.siteName) IN
       /\ ~SpecSyntaxOk(n) => vlast.error = ErrSyntax
       /\ SpecSyntaxOk(n) /\ n \in siteNameBlacklist => vlast.error = ErrReserved
       /\ vlast.error \in {ErrExists, ErrCheckingExistence, Nil} =>
             SpecSyntaxOk(n) /\ n \notin siteNameBlacklist
       /\ vlast.error = ErrExists => n \in DOMAIN fs
       /\ vlast.error = Nil => n \notin DOMAIN fs

\* A reserved name that has an entry was answered as reserved.
C20_Witness ==
    /\ Validated
    /\ HasEntry
    /\ vlast.siteName \in {<<"a", "p", "i">>, <<"A", "P", "I">>}
    /\ vlast.error = ErrReserved

\* A name that breaks the syntax rule and has an entry was answered with
\* the syntax error.
C20_SyntaxFirst ==
    /\ Validated
    /\ HasEntry
    /\ vlast.siteName \in {<<"-", "a">>, <<"a", "_", "b">>}
    /\ vlast.error = ErrSyntax

(***************************************************************************)
(* C21  Concurrent creates of one name leave one whole record              *)
(***************************************************************************)

\* C21: when all the create requests for one well-formed, free name have
\* finished without a storage failure, the namespace holds the entry of
\* that name with one complete SiteRecord, and the record is, field by
\* field, the one built from the request that was answered success=true,
\* the only one so answered.
C21_OneWholeRecord ==
    \A n \in ReqNames :
        LET S == Carrying(n) IN
        ( /\ S # {}
          /\ siteNameRegex(ToLower(n))
          /\ ToLower(n) \notin siteNameBlacklist
          /\ (n = ToLower(n) \/ Carrying(ToLower(n)) = {})
          /\ \A r \in S : Done(r) /\ r \notin faulted )
        => /\ n \in DOMAIN fs
           /\ fs[n].state = "written"
           /\ \E w \in S :
                 /\ resp[w].success
                 /\ \A q \in S \ {w} : ~resp[q].success
                 /\ fs[n].siteName = req[w].siteName
                 /\ fs[n].description = req[w].description

\* Every request there is has asked for one name and has finished without
\* a storage failure; the record is the winner's.
C21_Witness ==
    \E w \in Reqs :
        /\ \A r \in Reqs : Done(r) /\ r \notin faulted /\ req[r].siteName = req[w].siteName
        /\ resp[w].success
        /\ fs[req[w].siteName] = SiteConfig(req[w].siteName, req[w].description)
        /\ \A q \in Reqs \ {w} : resp[q] = JsonFailure(ErrExists)

(***************************************************************************)
(* C22  Requests for distinct names do not interfere                       *)
(***************************************************************************)

\* The name of request r differs, also after lower-casing, from the name of
\* every other request decoded so far.
Apart(r) ==
    /\ Decoded(r)
    /\ \A q \in Reqs \ {r} :
          Decoded(q) => ToLower(req[q].siteName) # ToLower(req[r].siteName)

\* What request r, run alone on the namespace the server started with,
\* answers and leaves behind once it has finished.
AsIfAlone(r) ==
    LET n == req[r].siteName IN
    IF ~siteNameRegex(ToLower(n))
    THEN resp[r] = JsonFailure(ErrSyntax) /\ n \notin DOMAIN fs
    ELSE IF ToLower(n) \in siteNameBlacklist
    THEN resp[r] = JsonFailure(ErrReserved) /\ n \notin DOMAIN fs
    ELSE IF r \notin faulted
    THEN /\ resp[r] = JsonSuccess(SiteURL(n))
         /\ n \in DOMAIN fs
         /\ fs[n] = SiteConfig(n, req[r].description)
    ELSE \/ /\ resp[r] = JsonFailure(ErrCheckingExistence)
            /\ n \notin DOMAIN fs
         \/ /\ resp[r] = HttpError("Internal Server Error", 500)
            /\ n \in DOMAIN fs => fs[n] \in {NoConfig, PartialConfig}

\* C22: a create request whose name differs, also after lower-casing, from
\* the names of all other requests is answered, and leaves the entry and
\* the record, as if it had run alone, in every interleaving: once finished
\* its outcome is the one of its own run, and nothing another request does
\* keeps it from finishing (of itself it stops only where it reads SITE_IP).
C22_Original ==
    \A r \in Reqs :
        Apart(r) =>
           /\ Done(r) => AsIfAlone(r)
           /\ ~alive /\ ~Done(r) => pc[r] = "siteip"

(***************************************************************************)
(* C23  The entry alone is the claim                                       *)
(***************************************************************************)

\* The validate endpoint answers a decoded request in this step.
ValidationAnswered == ValidateStep /\ vlast' # vlast /\ vlast'.status = 200

\* An entry exists whose config.json has not been written (yet, or ever).
EntryWithoutRecord == \E n \in DOMAIN fs : fs[n] = NoConfig

\* C23: from the step in which the directory of a name is created, with
\* its SiteRecord unwritten or its write failed, every validation of that
\* name is answered "site name already exists", and every create request
\* for it that it did not come from fails.
C23_Original ==
    /\ [][ValidationAnswered /\ vlast'.siteName \in DOMAIN fs
              => ~vlast'.valid /\ vlast'.error = ErrExists]_vars
    /\ [](\A q \in Reqs :
             /\ Done(q) /\ Decoded(q) /\ req[q].siteName \in atStart[q].entries
                   => ~resp[q].success
             /\ \A r \in Reqs \ {q} :
                   /\ Decoded(q) /\ Decoded(r) /\ req[q].siteName = req[r].siteName
                   => ~(resp[q].success /\ resp[r].success))

(***************************************************************************)
(* C24  createARecord succeeds on 201 Created only                         *)
(***************************************************************************)

\* createARecord has been called for request r and has returned.
DnsReturned(r) == Recorded(r) /\ Done(r)

\* C24: createARecord returns nil exactly when the DNS service answered
\* its request with status 201; a transport failure and every other status
\* give an error; with the endpoint or the credential missing it returns
\* the configuration error and no request has been sent.
C24_CreatedOnly ==
    \A r \in Reqs :
        DnsReturned(r) =>
           /\ dnsErr[r] = Nil <=> dnsAnswers[r] = <<201>>
           /\ IF dnsConf
              THEN /\ Len(dnsReqs[r]) = 1 /\ Len(dnsAnswers[r]) = 1
                   /\ dnsAnswers[r][1] = 0 => dnsErr[r] = ErrDNSRequestFailed
                   /\ dnsAnswers[r][1] \notin {0, 201} =>
                         dnsErr[r] = ErrDNSUnexpectedStatus
              ELSE /\ dnsErr[r] = ErrDNSConfigMissing
                   /\ dnsReqs[r] = << >>
                   /\ dnsAnswers[r] = << >>

\* The DNS service answered 200 OK and createARecord returned an error.
C24_Witness ==
    \E r \in Reqs :
        /\ DnsReturned(r)
        /\ dnsAnswers[r] = <<200>>
        /\ dnsErr[r] = ErrDNSUnexpectedStatus

\* The DNS configuration is missing: an error and nothing sent.
C24_NothingSent ==
    \E r \in Reqs :
        /\ DnsReturned(r)
        /\ ~dnsConf
        /\ dnsErr[r] = ErrDNSConfigMissing
        /\ dnsReqs[r] = << >>

(***************************************************************************)
(* C25  One name string for every artifact of a request                    *)
(***************************************************************************)

\* The host label of a site URL: what stands between the scheme and the
\* parent domain.
HostLabel(u) == SubSeq(u, 2, Len(u) - 1)

\* C25: a create request answered success=true has used one and the same
\* name string throughout: the entry that holds the record it wrote is
\* named as the record's siteName says, and that string is the subname of
\* its DNS request and the host label of the siteUrl it returned.
C25_SameNameEverywhere ==
    \A r \in Reqs :
        Done(r) /\ resp[r].success =>
           \E k \in DOMAIN fs :
               /\ fs[k].state = "written"
               /\ fs[k].description = req[r].description
               /\ fs[k].siteName = k
               /\ \A i \in 1..Len(dnsReqs[r]) : dnsReqs[r][i].subname = k
               /\ Len(resp[r].siteUrl) >= 2
               /\ resp[r].siteUrl[1] = "https://"
               /\ resp[r].siteUrl[Len(resp[r].siteUrl)] = ".flox.click"
               /\ HostLabel(resp[r].siteUrl) = k

\* A request for a name with an upper-case letter succeeded and sent its
\* DNS request.
C25_Witness ==
    \E r \in Reqs :
        /\ Done(r) /\ resp[r].success
        /\ req[r].siteName = <<"A", "b">>
        /\ Len(dnsReqs[r]) = 1
        /\ fs[<<"A", "b">>].state = "written"

(***************************************************************************)
(* C26  Requests rejected before validation                                *)
(***************************************************************************)

\* createSiteHandler returns from its method check or its JSON decoding in
\* this step.
CreateRejected(r) == pc[r] = "idle" /\ ret'[r] \in {"L591", "L599"}

\* validateSiteNameHandler answers from its method check or its JSON
\* decoding in this step.
ValidateRejected ==
    /\ ValidateStep
    /\ vlast' # vlast
    /\ vlast'.error \in {"Method not allowed", "Invalid JSON request"}

\* A request rejected before validation never holds a name, an entry or a
\* DNS request, and its answer is the error status.
C26_State ==
    \A r \in Reqs :
        ret[r] \in {"L591", "L599"} =>
           /\ Done(r) /\ ~Decoded(r)
           /\ resp[r].status = (IF ret[r] = "L591" THEN 405 ELSE 400)
           /\ ~resp[r].success
           /\ req[r] = NoReq
           /\ dnsReqs[r] = << >>

\* C26: a request that either endpoint rejects for its method (405) or for
\* a body that is not valid JSON (400) is answered with that status, and
\* the step that rejects it creates no entry, writes no SiteRecord and
\* sends no DNS request.
C26_RejectedEarly ==
    /\ []C26_State
    /\ [][\A r \in Reqs :
             CreateRejected(r) =>
                /\ resp'[r].status \in {405, 400}
                /\ UNCHANGED <<fs, dnsReqs>>]_vars
    /\ [][ValidateRejected =>
             /\ vlast'.status \in {405, 400}
             /\ ~vlast'.valid
             /\ UNCHANGED <<fs, dnsReqs>>]_vars

\* Both endpoints have turned a request away, one for its method and one
\* for its body, and the namespace is still empty.
C26_Witness ==
    /\ vlast.status = 405
    /\ \E r \in Reqs : ret[r] = "L599" /\ resp[r].status = 400
    /\ DOMAIN fs = {}

====
